---- MODULE Spec2Model ----
(***************************************************************************)
(* Model of immunoprot::ig_like::kir_ligand: the LigandMotif and           *)
(* AlleleFreq classifiers, the table extractor read_table, and the         *)
(* KirLigandMap cache (KirLigandMap::new, KirLigandMap::get_allele_info).  *)
(*                                                                         *)
(* Text is modelled as a sequence of one-character strings, so that        *)
(* whitespace removal, trimming and substring search are computed.         *)
(***************************************************************************)
EXTENDS Integers, Sequences, FiniteSets, TLC

VARIABLES
    motifBase,  \* the whitespace-free text the motif input was built from
    motifIn,    \* argument of LigandMotif::from_str
    motifOut,   \* its result
    freqCore,   \* the input of AlleleFreq::from without its outer padding
    freqIn,     \* argument of AlleleFreq::from
    freqOut,    \* its result
    html,       \* read_table: the rows selected by "tr", each a list of text fragments
    skip_rows,  \* read_table: the skip_rows argument
    tableOut,   \* read_table: its result
    loci,       \* KirLigandMap::new: the loci argument
    idx,        \* KirLigandMap::new: position of the map iterator (1-based)
    pc,         \* KirLigandMap::new: control state
    raw_html,   \* KirLigandMap::new: the document of the locus being processed
    allele_infos, \* KirLigandMap::new: records of the current locus not yet inserted
    alleles,    \* KirLigandMap::new: the HashSet under construction
    cache,      \* KirLigandMap::new: the HashMap under construction
    collected,  \* KirLigandMap::new: the Result the collect() produced (bound to _)
    ret,        \* KirLigandMap::new: the value returned to the caller
    fetched,    \* history: the loci passed to get_ipd_html, in call order
    merged,     \* history: the records inserted, in insertion order
    extracted,  \* history: per successfully extracted locus, its records
    lookupArg,  \* get_allele_info: the allele argument of the last call
    lookupOut   \* get_allele_info: the vector it returned

motifVars == <<motifBase, motifIn, motifOut>>
freqVars  == <<freqCore, freqIn, freqOut>>
tableVars == <<html, skip_rows, tableOut>>
buildVars == <<loci, idx, pc, raw_html, allele_infos, alleles, cache, collected,
               ret, fetched, merged, extracted, lookupArg, lookupOut>>
vars == <<motifVars, freqVars, tableVars, buildVars>>

-----------------------------------------------------------------------------
(* Bounds *)

MaxWs   == 3   \* whitespace characters inserted into a motif text
MaxPad  == 2   \* whitespace characters on each side of a frequency text
MaxRows == 3   \* rows of a document handed to read_table
MaxLoci == 3   \* loci handed to KirLigandMap::new

-----------------------------------------------------------------------------
(* Text helpers *)

\* char::is_whitespace (two representatives of the White_Space class)
WhiteSpace == {" ", "\t"}

IsWhitespace(c) == c \in WhiteSpace

\* s.chars().filter(|c| !c.is_whitespace()).collect::<String>()
StripWs(s) == SelectSeq(s, LAMBDA c : ~IsWhitespace(c))

RECURSIVE TrimStart(_)
TrimStart(s) ==
    IF s # <<>> /\ IsWhitespace(Head(s)) THEN TrimStart(Tail(s)) ELSE s

RECURSIVE TrimEnd(_)
TrimEnd(s) ==
    IF s # <<>> /\ IsWhitespace(s[Len(s)])
    THEN TrimEnd(SubSeq(s, 1, Len(s) - 1))
    ELSE s

\* str::trim
Trim(s) == TrimEnd(TrimStart(s))

\* str::contains(&str)
Contains(s, pat) ==
    \E i \in 1..(Len(s) - Len(pat) + 1) : SubSeq(s, i, i + Len(pat) - 1) = pat

\* [&str]::join("")
RECURSIVE Join(_)
Join(row) == IF row = <<>> THEN <<>> ELSE Head(row) \o Join(Tail(row))

InsertAt(s, i, c) == SubSeq(s, 1, i) \o <<c>> \o SubSeq(s, i + 1, Len(s))

\* every text obtained from s by inserting at most k whitespace characters
RECURSIVE WsInsertions(_, _)
WsInsertions(s, k) ==
    IF k = 0 THEN {s}
    ELSE LET P == WsInsertions(s, k - 1)
         IN  P \cup UNION {{InsertAt(t, i, c) : i \in 0..Len(t), c \in WhiteSpace} : t \in P}

\* every sequence of at most k whitespace characters
RECURSIVE Pads(_)
Pads(k) ==
    IF k = 0 THEN {<<>>}
    ELSE LET P == Pads(k - 1)
         IN  P \cup {<<c>> \o p : c \in WhiteSpace, p \in P}

-----------------------------------------------------------------------------
(* Literals of the source *)

sA11          == <<"A", "1", "1">>
sA3           == <<"A", "3">>
sA03          == <<"A", "0", "3">>
sBw4_80T      == <<"B", "w", "4", "-", "8", "0", "T">>
sBw4_80I      == <<"B", "w", "4", "-", "8", "0", "I">>
sBw6          == <<"B", "w", "6">>
sC1           == <<"C", "1">>
sC01          == <<"C", "0", "1">>
sC2           == <<"C", "2">>
sC02          == <<"C", "0", "2">>
sUnclassified == <<"U", "n", "c", "l", "a", "s", "s", "i", "f", "i", "e", "d">>
sCommon       == <<"C", "o", "m", "m", "o", "n">>
sRare         == <<"R", "a", "r", "e">>

GENE_LOCI == <<"A", "B", "C">>
SKIP_ROWS == 1

-----------------------------------------------------------------------------
(* LigandMotif *)

LigandMotif == {"A11", "A3", "Bw4_80T", "Bw4_80I", "Bw6", "C1", "C2", "Unclassified"}

MotifOk(m)   == [ok |-> TRUE,  motif |-> m,      kind |-> "none",               text |-> <<>>]
UnknownLigandMotif(t) ==
                [ok |-> FALSE, motif |-> "none", kind |-> "UnknownLigandMotif", text |-> t]
MotifPending == [ok |-> FALSE, motif |-> "none", kind |-> "pending",            text |-> <<>>]

\* the normalisation of from_str's argument before the match
TrimOnlyNormalise(s) == Trim(s)
MotifNormalise(s) == StripWs(s)

\* impl FromStr for LigandMotif
from_str(s) ==
    LET t == MotifNormalise(s)
    IN  CASE t = sA11                -> MotifOk("A11")
          [] t = sA3 \/ t = sA03     -> MotifOk("A3")
          [] t = sBw4_80T            -> MotifOk("Bw4_80T")
          [] t = sBw4_80I            -> MotifOk("Bw4_80I")
          [] t = sBw6                -> MotifOk("Bw6")
          [] t = sC1 \/ t = sC01     -> MotifOk("C1")
          [] t = sC2 \/ t = sC02     -> MotifOk("C2")
          [] t = sUnclassified       -> MotifOk("Unclassified")
          [] OTHER                   -> UnknownLigandMotif(t)

-----------------------------------------------------------------------------
(* AlleleFreq *)

AlleleFreq == {"Rare", "Common", "Unknown"}

\* the second match arm: the literal pattern "Rare"
RareByContains(t) == Contains(t, sRare)
IsRare(t) == t = sRare

\* impl<T: AsRef<str>> From<T> for AlleleFreq
AlleleFreqFrom(s) ==
    LET t == Trim(s)
    IN  IF Contains(t, sCommon) THEN "Common"
        ELSE IF IsRare(t) THEN "Rare"
        ELSE "Unknown"

-----------------------------------------------------------------------------
(* ClassI: the allele identifier parser of crate::mhc::hla.  A text names    *)
(* a gene (A, B or C), an optional "*" and colon-separated numeric fields;   *)
(* the identifier is the text without the "*", so that "C*01" and "C01"      *)
(* denote the same allele.                                                   *)

Digits == {"0", "1", "2", "3", "4", "5", "6", "7", "8", "9"}

ClassIOk(id) == [ok |-> TRUE,  id |-> id]
ClassIErr    == [ok |-> FALSE, id |-> <<>>]

\* impl FromStr for ClassI
ParseClassI(s) ==
    LET t == SelectSeq(s, LAMBDA c : c # "*")
    IN  IF /\ Len(t) >= 2
           /\ t[1] \in {GENE_LOCI[i] : i \in DOMAIN GENE_LOCI}
           /\ \A i \in 2..Len(t) : t[i] \in Digits \cup {":"}
        THEN ClassIOk(t)
        ELSE ClassIErr

-----------------------------------------------------------------------------
(* HtmlParseError *)

NoError == [kind |-> "none", count |-> 0, text |-> <<>>]
CouldNotReadClassI(text) == [kind |-> "CouldNotReadClassI", count |-> 0, text |-> text]
IncorrectNumberOfColumns(n, text) ==
    [kind |-> "IncorrectNumberOfColumns", count |-> n, text |-> text]
\* From<attohttpc::Error>: request.send() failed
RequestError == [kind |-> "RequestError", count |-> 0, text |-> <<>>]
\* response.text() failed
CouldNotReadResponse == [kind |-> "CouldNotReadResponse", count |-> 0, text |-> <<>>]

-----------------------------------------------------------------------------
(* KirLigandInfo and read_table *)

\* KirLigandInfo::new
KirLigandInfo(hla, motif, freq) == [allele |-> hla, motif |-> motif, freq |-> freq]

TableOk(records) == [ok |-> TRUE,  records |-> records, err |-> NoError]
TableErr(e)      == [ok |-> FALSE, records |-> <<>>,    err |-> e]
TablePending     == [ok |-> FALSE, records |-> <<>>,    err |-> [NoError EXCEPT !.kind = "pending"]]

\* Iterator::skip(skip_rows) over the selected rows
NoSkip(rows, n) == rows
Skip(rows, n) == IF n >= Len(rows) THEN <<>> ELSE SubSeq(rows, n + 1, Len(rows))

RECURSIVE ReadRows(_, _)

\* the else branch of `if table_row.len() == 3`
SkipMalformedRow(table_row, rest, result) == ReadRows(rest, result)
BadShape(table_row, rest, result) ==
    TableErr(IncorrectNumberOfColumns(Len(table_row), Join(table_row)))

\* the error a failed table_row[1].parse::<LigandMotif>() is mapped to
MotifParseError(fragment) == CouldNotReadClassI(fragment)

\* the body of the `for row in html.select(&selector).skip(skip_rows)` loop
ReadRows(rows, result) ==
    IF rows = <<>> THEN TableOk(result)
    ELSE LET table_row == Head(rows) IN
         IF Len(table_row) = 3
         THEN LET allele == ParseClassI(table_row[1])
                  motif  == from_str(table_row[2])
                  freq   == AlleleFreqFrom(table_row[3])
              IN  IF ~allele.ok THEN TableErr(CouldNotReadClassI(table_row[1]))
                  ELSE IF ~motif.ok THEN TableErr(MotifParseError(table_row[2]))
                  ELSE ReadRows(Tail(rows),
                                Append(result, KirLigandInfo(allele.id, motif.motif, freq)))
         ELSE BadShape(table_row, Tail(rows), result)

\* pub fn read_table(html, skip_rows)
read_table(doc, n) == ReadRows(Skip(doc, n), <<>>)

-----------------------------------------------------------------------------
(* KirLigandMap *)

\* HashSet::insert
SetKeep(s, k) == s
SetInsert(s, k) == s \cup {k}

\* HashMap::insert: a value stored under an equal key is replaced
MapKeepFirst(m, k, v) ==
    [x \in DOMAIN m \cup {k} |-> IF x \in DOMAIN m THEN m[x] ELSE v]
MapInsert(m, k, v) ==
    [x \in DOMAIN m \cup {k} |-> IF x = k THEN v ELSE m[x]]

\* collect::<Result<Vec<_>, _>>(): the position of the map iterator after the
\* closure returned Err for item i of n -- no further item is taken
ContinueAfterErr(i, n) == i + 1
ShortCircuit(i, n) == n + 1

MapOk(al, ca) == [ok |-> TRUE,  alleles |-> al, cache |-> ca,   err |-> NoError]
MapErr(e)     == [ok |-> FALSE, alleles |-> {}, cache |-> <<>>, err |-> e]
MapPending    == MapErr([NoError EXCEPT !.kind = "pending"])

CollectedOk     == NoError
CollectedErr(e) == e

\* the final expression of KirLigandMap::new: the collected Result is bound
\* to `_` and dropped, Ok(Self { alleles, cache }) is returned
NewResult(coll, al, ca) == MapOk(al, ca)

\* KirLigandMap::get_allele_info
NegatedGate(al, ca, allele) ==
    IF allele \notin al /\ allele \in DOMAIN ca THEN <<ca[allele]>> ELSE <<>>
get_allele_info(al, ca, allele) ==
    IF allele \in al
    THEN IF allele \in DOMAIN ca THEN <<ca[allele]>> ELSE <<>>
    ELSE <<>>

-----------------------------------------------------------------------------
(* Inputs *)

aA2star == <<"A", "*", "2">>
aA2     == <<"A", "2">>
aB5star == <<"B", "*", "5">>
aC1star == <<"C", "*", "1">>
aBad    == <<"Z", "9">>
sC3     == <<"C", "3">>
sPadBw6 == <<" ", "B", "w", "6", "\t">>
sCommonNote == <<"C", "o", "m", "m", "o", "n", " ", "(", "x", ")">>
sRareNote   == <<"R", "a", "r", "e", " ", "(", "x", ")">>
sRareLower  == <<"r", "a", "r", "e">>

MotifBases ==
    {sA11, sA3, sA03, sBw4_80T, sBw4_80I, sBw6, sC1, sC01, sC2, sC02, sUnclassified,
     <<>>, sC3, <<"A", "1">>, <<"a", "3">>, <<"A", "1", "1", "1">>, <<"B", "w", "4">>,
     <<"B", "w", "4", "-", "8", "0">>, <<"c", "1">>, <<"C", "0", "0", "1">>,
     <<"U", "n", "c", "l", "a", "s", "s">>, <<"X">>}

FreqCores ==
    {sCommon, sRare, <<>>, sRareLower, <<"c", "o", "m", "m", "o", "n">>,
     sCommonNote, sRareNote, sRare \o sCommon, sCommon \o <<" ">> \o sRare,
     sRare \o <<" ">> \o sCommon, <<"C", "o", "m", " ", "m", "o", "n">>,
     <<"R", "a", "\t", "r", "e">>, <<"U", "n", "c", "o", "m", "m", "o", "n">>,
     <<"x">> \o sCommon \o <<"y">>, <<"C", "o", "m", "m", "o">>, <<"?">>}

rHeader   == << <<"H">> >>
rA2       == <<aA2star, sC1, sCommonNote>>
rA2again  == <<aA2, sC02, sRare>>
rB5       == <<aB5star, sPadBw6, <<>>>>
rC1       == <<aC1star, sA03, sRareLower>>
rShape2   == <<aC1star, sC1>>
rShape4   == <<aB5star, sBw6, sRare, <<"x">>>>
rShape0   == <<>>
rBadAllele == <<aBad, sC1, sCommon>>
rBadMotif == <<aC1star, sC3, sRare>>

RowPool == {rHeader, rA2, rA2again, rB5, rShape2, rShape4, rShape0, rBadAllele, rBadMotif}

RECURSIVE SeqsUpTo(_, _)
SeqsUpTo(S, n) ==
    IF n = 0 THEN {<<>>}
    ELSE LET P == SeqsUpTo(S, n - 1)
         IN  P \cup {Append(p, x) : p \in {q \in P : Len(q) = n - 1}, x \in S}

\* the documents get_ipd_html can hand to KirLigandMap::new
DocPool ==
    {<<rHeader, rA2, rB5>>,
     <<rHeader, rA2, rA2again>>,
     <<rHeader, rC1, rA2again>>,
     <<rHeader, rB5, rShape2>>,
     <<rHeader, rBadMotif>>,
     <<rHeader>>}

LocusNames == {GENE_LOCI[i] : i \in DOMAIN GENE_LOCI}

\* the allele identifiers a caller can look up
LookupKeys == {ParseClassI(a).id : a \in {aA2star, aB5star, aC1star, <<"C", "*", "7">>}}

-----------------------------------------------------------------------------
(* Initial states *)

IdleMotif == motifBase = <<>> /\ motifIn = <<>> /\ motifOut = MotifPending
IdleFreq  == freqCore = <<>> /\ freqIn = <<>> /\ freqOut = "pending"
IdleTable == html = <<>> /\ skip_rows = 0 /\ tableOut = TablePending
IdleBuild ==
    /\ loci = <<>> /\ idx = 1 /\ pc = "idle"
    /\ raw_html = <<>> /\ allele_infos = <<>>
    /\ alleles = {} /\ cache = <<>>
    /\ collected = CollectedOk /\ ret = MapPending
    /\ fetched = <<>> /\ merged = <<>> /\ extracted = <<>>
    /\ lookupArg = <<>> /\ lookupOut = <<>>

InitMotif ==
    /\ motifBase \in MotifBases
    /\ motifIn \in WsInsertions(motifBase, MaxWs)
    /\ motifOut = MotifPending
    /\ IdleFreq /\ IdleTable /\ IdleBuild

InitFreq ==
    /\ freqCore \in FreqCores
    /\ freqIn \in {l \o freqCore \o r : l \in Pads(MaxPad), r \in Pads(MaxPad)}
    /\ freqOut = "pending"
    /\ IdleMotif /\ IdleTable /\ IdleBuild

InitTable ==
    /\ html \in SeqsUpTo(RowPool, MaxRows)
    /\ skip_rows \in 0..2
    /\ tableOut = TablePending
    /\ IdleMotif /\ IdleFreq /\ IdleBuild

\* the state on entry to KirLigandMap::new(loci)
Init ==
    /\ loci \in SeqsUpTo(LocusNames, MaxLoci)
    /\ idx = 1 /\ pc = "next"
    /\ raw_html = <<>> /\ allele_infos = <<>>
    /\ alleles = {} /\ cache = <<>>
    /\ collected = CollectedOk /\ ret = MapPending
    /\ fetched = <<>> /\ merged = <<>> /\ extracted = <<>>
    /\ lookupArg = <<>> /\ lookupOut = <<>>
    /\ IdleMotif /\ IdleFreq /\ IdleTable

-----------------------------------------------------------------------------
(* Actions *)

ParseMotif ==
    /\ motifOut = MotifPending
    /\ motifOut' = from_str(motifIn)
    /\ UNCHANGED <<motifBase, motifIn, freqVars, tableVars, buildVars>>

ClassifyFrequency ==
    /\ freqOut = "pending"
    /\ freqOut' = AlleleFreqFrom(freqIn)
    /\ UNCHANGED <<freqCore, freqIn, motifVars, tableVars, buildVars>>

ReadTable ==
    /\ tableOut = TablePending
    /\ tableOut' = read_table(html, skip_rows)
    /\ UNCHANGED <<html, skip_rows, motifVars, freqVars, buildVars>>

\* the closure's `get_ipd_html(locus)?` succeeds with a parsed document
FetchOk ==
    /\ pc = "next" /\ idx <= Len(loci)
    /\ \E doc \in DocPool : raw_html' = doc
    /\ fetched' = Append(fetched, loci[idx])
    /\ pc' = "fetched"
    /\ UNCHANGED <<loci, idx, allele_infos, alleles, cache, collected, ret, merged,
                   extracted, lookupArg, lookupOut, motifVars, freqVars, tableVars>>

\* the closure's `get_ipd_html(locus)?` fails: the closure returns Err
FetchFail ==
    /\ pc = "next" /\ idx <= Len(loci)
    /\ \E e \in {RequestError, CouldNotReadResponse} :
          collected' = IF collected = CollectedOk THEN CollectedErr(e) ELSE collected
    /\ fetched' = Append(fetched, loci[idx])
    /\ idx' = ShortCircuit(idx, Len(loci))
    /\ UNCHANGED <<loci, pc, raw_html, allele_infos, alleles, cache, ret, merged,
                   extracted, lookupArg, lookupOut, motifVars, freqVars, tableVars>>

\* the closure's `read_table(&raw_html, SKIP_ROWS)?`
Extract ==
    /\ pc = "fetched"
    /\ LET r == read_table(raw_html, SKIP_ROWS)
       IN  IF r.ok
           THEN /\ allele_infos' = r.records
                /\ extracted' = Append(extracted, r.records)
                /\ pc' = "insert"
                /\ UNCHANGED <<idx, collected>>
           ELSE /\ collected' = IF collected = CollectedOk THEN CollectedErr(r.err)
                                ELSE collected
                /\ idx' = ShortCircuit(idx, Len(loci))
                /\ pc' = "next"
                /\ UNCHANGED <<allele_infos, extracted>>
    /\ UNCHANGED <<loci, raw_html, alleles, cache, ret, fetched, merged,
                   lookupArg, lookupOut, motifVars, freqVars, tableVars>>

\* one iteration of `for allele_info in allele_infos`
Insert ==
    /\ pc = "insert" /\ allele_infos # <<>>
    /\ LET allele_info == Head(allele_infos)
       IN  /\ alleles' = SetInsert(alleles, allele_info.allele)
           /\ cache' = MapInsert(cache, allele_info.allele, allele_info)
           /\ merged' = Append(merged, allele_info)
    /\ allele_infos' = Tail(allele_infos)
    /\ UNCHANGED <<loci, idx, pc, raw_html, collected, ret, fetched, extracted,
                   lookupArg, lookupOut, motifVars, freqVars, tableVars>>

\* the closure returns Ok(()) and the iterator moves to the next locus
EndLocus ==
    /\ pc = "insert" /\ allele_infos = <<>>
    /\ idx' = idx + 1
    /\ pc' = "next"
    /\ UNCHANGED <<loci, raw_html, allele_infos, alleles, cache, collected, ret, fetched,
                   merged, extracted, lookupArg, lookupOut, motifVars, freqVars, tableVars>>

\* collect() has finished; KirLigandMap::new returns
Return ==
    /\ pc = "next" /\ idx > Len(loci)
    /\ ret' = NewResult(collected, alleles, cache)
    /\ pc' = "done"
    /\ UNCHANGED <<loci, idx, raw_html, allele_infos, alleles, cache, collected, fetched,
                   merged, extracted, lookupArg, lookupOut, motifVars, freqVars, tableVars>>

\* a caller holding the returned map calls get_allele_info
Lookup ==
    /\ pc = "done" /\ ret.ok
    /\ \E allele \in LookupKeys :
          /\ lookupArg' = allele
          /\ lookupOut' = get_allele_info(ret.alleles, ret.cache, allele)
    /\ UNCHANGED <<loci, idx, pc, raw_html, allele_infos, alleles, cache, collected, ret,
                   fetched, merged, extracted, motifVars, freqVars, tableVars>>

NextMotif == ParseMotif
NextFreq  == ClassifyFrequency
NextTable == ReadTable
Next == FetchOk \/ FetchFail \/ Extract \/ Insert \/ EndLocus \/ Return \/ Lookup

SpecMotif == InitMotif /\ [][NextMotif]_vars
SpecFreq  == InitFreq /\ [][NextFreq]_vars
SpecTable == InitTable /\ [][NextTable]_vars
Spec      == Init /\ [][Next]_vars

-----------------------------------------------------------------------------
(* Properties *)

RECURSIVE Flatten(_)
Flatten(ss) == IF ss = <<>> THEN <<>> ELSE Head(ss) \o Flatten(Tail(ss))

AllelesOf(recs) == {recs[i].allele : i \in DOMAIN recs}

\* the last record of recs that carries allele a
LastRecord(recs, a) ==
    recs[CHOOSE i \in DOMAIN recs :
            /\ recs[i].allele = a
            /\ \A j \in DOMAIN recs : j > i => recs[j].allele # a]

Failed == collected # CollectedOk

\* the rows read_table looks at, stated on positions of html
DataRows == {i \in DOMAIN html : i > skip_rows}
RowValid(r) == Len(r) = 3 /\ ParseClassI(r[1]).ok /\ from_str(r[2]).ok
TableDone == tableOut # TablePending

\* C1: when the fetch or the extraction of a locus failed, KirLigandMap::new
\* returns that error and no cache.
C1_AllOrNothing ==
    (pc = "done" /\ Failed) => (~ret.ok /\ ret.err = collected /\ ret.cache = <<>>)

\* C2: when KirLigandMap::new has returned a map, its allele set is the union of
\* the alleles of all locus results (one result per locus when no locus failed),
\* and each allele maps to the last record, in locus order then row order, that
\* carried it.
C2_LastWriteWins ==
    (pc = "done" /\ ret.ok) =>
        LET all == Flatten(extracted)
        IN  /\ ~Failed => Len(extracted) = Len(loci)
            /\ ret.alleles = AllelesOf(all)
            /\ DOMAIN ret.cache = AllelesOf(all)
            /\ \A a \in AllelesOf(all) : ret.cache[a] = LastRecord(all, a)

\* an allele was returned by two loci, and by two rows of one locus, with
\* different records, and the build succeeded
C2_Witness ==
    /\ pc = "done" /\ ret.ok /\ ~Failed /\ Len(loci) >= 2
    /\ \E i, j \in DOMAIN extracted :
          /\ i < j
          /\ \E x \in DOMAIN extracted[i], y \in DOMAIN extracted[j] :
                /\ extracted[i][x].allele = extracted[j][y].allele
                /\ extracted[i][x] # extracted[j][y]
                /\ ret.cache[extracted[i][x].allele] # extracted[i][x]
    /\ \E i \in DOMAIN extracted :
          \E x, y \in DOMAIN extracted[i] :
             x < y /\ extracted[i][x].allele = extracted[i][y].allele

C4_Lookup ==
    /\ [](lookupArg # <<>> =>
            LET all == Flatten(extracted)
            IN  /\ Len(lookupOut) <= 1
                /\ lookupArg \notin AllelesOf(all) => lookupOut = <<>>
                /\ lookupArg \in AllelesOf(all) =>
                      /\ lookupOut = <<ret.cache[lookupArg]>>
                      /\ lookupOut = <<LastRecord(all, lookupArg)>>)
    /\ [][pc = "done" => (ret' = ret /\ alleles' = alleles /\ cache' = cache)]_vars

\* a lookup hit on an allele that several rows carried
C4_Witness ==
    /\ lookupArg # <<>> /\ Len(lookupOut) = 1
    /\ Len(merged) > Cardinality(ret.alleles)
    /\ Cardinality(ret.alleles) >= 2

\* C5: loci are fetched in the given order, each only after every record of the
\* loci before it was inserted; once a locus failed nothing more is fetched,
\* extracted or inserted.
C5_FailFast ==
    [][/\ fetched' # fetched =>
             /\ ~Failed
             /\ fetched' = Append(fetched, loci[Len(fetched) + 1])
             /\ Len(extracted) = Len(fetched)
             /\ merged = Flatten(extracted)
       /\ Failed =>
             /\ fetched' = fetched /\ extracted' = extracted /\ merged' = merged
             /\ alleles' = alleles /\ cache' = cache]_vars

\* the build has returned after a failure that left loci unfetched and records
\* of earlier loci inserted
C5_Witness ==
    /\ pc = "done" /\ Failed
    /\ Len(fetched) < Len(loci)
    /\ merged # <<>>

\* C6 as stated: whenever some row after the skipped ones has a fragment count
\* other than 3, read_table fails with IncorrectNumberOfColumns for the first
\* such row.
C6_RowShapeAlways ==
    (TableDone /\ \E i \in DataRows : Len(html[i]) # 3) =>
        LET i == CHOOSE i \in DataRows :
                    Len(html[i]) # 3 /\ \A j \in DataRows : j < i => Len(html[j]) = 3
        IN  tableOut = TableErr(IncorrectNumberOfColumns(Len(html[i]), Join(html[i])))

\* C6 amended: a malformed row always makes read_table fail without records; the
\* error is IncorrectNumberOfColumns for the first malformed row when the allele
\* and motif fragments of every row before it parse.
C6_RowShape ==
    (TableDone /\ \E i \in DataRows : Len(html[i]) # 3) =>
        LET i == CHOOSE i \in DataRows :
                    Len(html[i]) # 3 /\ \A j \in DataRows : j < i => Len(html[j]) = 3
        IN  /\ ~tableOut.ok /\ tableOut.records = <<>>
            /\ (\A j \in DataRows : j < i => RowValid(html[j])) =>
                  tableOut = TableErr(IncorrectNumberOfColumns(Len(html[i]), Join(html[i])))

\* a malformed row after a valid one, then a further valid row
C6_Witness ==
    /\ TableDone /\ skip_rows = 0 /\ Len(html) >= 3
    /\ RowValid(html[1]) /\ Len(html[2]) \in {0, 2, 4} /\ RowValid(html[3])
    /\ tableOut.err.kind = "IncorrectNumberOfColumns"

\* C7: LigandMotif::from_str ignores every whitespace character of its input and
\* matches the rest exactly against the token table; any other text fails with
\* UnknownLigandMotif carrying the whitespace-free text.
MotifTokens ==
    {<<sA11, "A11">>, <<sA3, "A3">>, <<sA03, "A3">>, <<sBw4_80T, "Bw4_80T">>,
     <<sBw4_80I, "Bw4_80I">>, <<sBw6, "Bw6">>, <<sC1, "C1">>, <<sC01, "C1">>,
     <<sC2, "C2">>, <<sC02, "C2">>, <<sUnclassified, "Unclassified">>}

C7_ParseMotif ==
    motifOut # MotifPending =>
        IF \E p \in MotifTokens : p[1] = motifBase
        THEN \A p \in MotifTokens : p[1] = motifBase =>
                (motifOut.ok /\ motifOut.motif = p[2])
        ELSE /\ ~motifOut.ok /\ motifOut.motif # "Unclassified"
             /\ motifOut.kind = "UnknownLigandMotif" /\ motifOut.text = motifBase

\* a known token parsed from a text with whitespace inside it and at both ends
C7_Witness ==
    /\ motifOut.ok /\ Len(motifIn) >= 5
    /\ IsWhitespace(motifIn[1]) /\ IsWhitespace(motifIn[Len(motifIn)])
    /\ \E i \in 3..(Len(motifIn) - 2) : IsWhitespace(motifIn[i])

\* C8: AlleleFreq::from returns one of Rare, Common, Unknown for every text:
\* Common when the trimmed text contains "Common", else Rare when it is exactly
\* "Rare", else Unknown.
C8_ClassifyFrequency ==
    freqOut # "pending" =>
        /\ freqOut \in AlleleFreq
        /\ freqOut = "Common" <=> Contains(freqCore, sCommon)
        /\ freqOut = "Rare" <=> (freqCore = sRare)
        /\ freqCore \in {<<>>, sRareLower, sRareNote, <<"c", "o", "m", "m", "o", "n">>}
              => freqOut = "Unknown"
        /\ freqCore \in {sCommonNote, sRare \o sCommon, sCommon \o <<" ">> \o sRare}
              => freqOut = "Common"

\* a padded text containing both "Common" and "Rare"
C8_Witness ==
    /\ freqOut = "Common" /\ Contains(freqCore, sRare)
    /\ freqIn # <<>> /\ IsWhitespace(freqIn[1]) /\ IsWhitespace(freqIn[Len(freqIn)])

\* C9: a successful read_table returns one record per row after the skipped
\* ones, in order, built from the row's three fragments; skipped rows are not
\* validated and a document of at most skip_rows rows gives an empty result.
C9_Records ==
    TableDone =>
        /\ tableOut.ok <=> \A i \in DataRows : RowValid(html[i])
        /\ tableOut.ok =>
              /\ Len(tableOut.records) = Cardinality(DataRows)
              /\ \A i \in DOMAIN tableOut.records :
                    LET r == html[skip_rows + i]
                    IN  tableOut.records[i] =
                           [allele |-> ParseClassI(r[1]).id,
                            motif  |-> from_str(r[2]).motif,
                            freq   |-> AlleleFreqFrom(r[3])]
        /\ Len(html) <= skip_rows => tableOut = TableOk(<<>>)

\* two records extracted after a skipped row that has no three fragments
C9_Witness ==
    /\ TableDone /\ tableOut.ok
    /\ skip_rows = 1 /\ Len(html) = 3 /\ Len(html[1]) # 3
    /\ Len(tableOut.records) = 2
    /\ tableOut.records[1] # tableOut.records[2]

\* C10: the first row that fails, if it has three fragments, fails with an
\* error carrying the offending fragment; a motif failure is reported with
\* another error kind than an allele failure; no records are returned.
C10_DistinctErrorKinds ==
    (TableDone /\ \E i \in DataRows : ~RowValid(html[i])) =>
        LET i == CHOOSE i \in DataRows :
                    ~RowValid(html[i]) /\ \A j \in DataRows : j < i => RowValid(html[j])
            r == html[i]
        IN  Len(r) = 3 =>
               /\ tableOut.records = <<>> /\ ~tableOut.ok
               /\ ~ParseClassI(r[1]).ok => tableOut.err = CouldNotReadClassI(r[1])
               /\ (ParseClassI(r[1]).ok /\ ~from_str(r[2]).ok) =>
                     /\ tableOut.err.text = r[2]
                     /\ tableOut.err.kind # CouldNotReadClassI(r[1]).kind

====
